---- MODULE Spec2Model ----
(***************************************************************************)
(* Batch news-analysis pipeline of src/api.py: the start-batch endpoint,   *)
(* the background worker run_batch_analysis, the per-item analyzer         *)
(* analyze_holding_news and the get-status endpoint, over the BatchJob,    *)
(* NewsAnalysis and Holding tables of src/models.py.                       *)
(*                                                                         *)
(* Granularity: the start-batch handler is one step (it runs on the event  *)
(* loop, under batch_job_lock, without awaiting).  A worker thread is a    *)
(* process whose steps are its database commits; everything a worker does  *)
(* between two commits is local to it.                                     *)
(***************************************************************************)
EXTENDS Integers, Sequences, FiniteSets, TLC

----------------------------------------------------------------------------
(* Bounds *)

\* number of start requests that are accepted (rows of the BatchJob table)
MaxJobs == 2

\* rows of the Holding table
MaxHoldings == 2

\* most articles a news fetch returns
MaxNews == 1

\* largest total_holdings of a BatchJob row left by an earlier process
MaxTotal == 3

\* longest analysis text handed to the extractor, in tokens
MaxTextLen == 5

\* most entries a news feed delivers, and largest max_articles asked for
MaxFeedLen == 3

----------------------------------------------------------------------------
(* Optional values: Python None is the empty set, a value v is {v} *)

None == {}

Some(v) == {v}

----------------------------------------------------------------------------
(* Inputs *)

\* tickers as the holdings sources deliver them (case is not normalized)
TickerInputs == {"aapl", "MSFT"}

\* str.upper() on the tickers above
Upper(t) == IF t = "aapl" THEN "AAPL" ELSE t

\* quantities in units of 0.0001
QtyInputs == {1, 2}

\* Holding.qty > 0.0001, in units of 0.0001
QtyEpsilon == 1

\* texts the LLM may return as choices[0].message.content, as token
\* sequences in lower case ("" is the empty sequence)
LLMTexts ==
    { <<"sentiment", ":", "negative", "buy">>,
      <<"outlook">> }

\* the pieces analysis texts are made of, as the LLM writes them; a text is
\* the concatenation of its tokens.  No keyword of the extractor lies inside
\* a token or across two of them, so searching the string is searching the
\* token sequence.
RawTokens ==
    {"Sentiment", ": ", "POSITIVE", "negative", "mixed", "buy", "sell", "outlook"}

\* str.lower() on one token
LowerToken(tok) ==
    CASE tok = "Sentiment" -> "sentiment"
      [] tok = "POSITIVE" -> "positive"
      [] OTHER -> tok

\* analysis_text.lower()
Lower(text) == [i \in 1..Len(text) |-> LowerToken(text[i])]

\* the analysis texts of at most MaxTextLen tokens; <<>> is "" (and None,
\* which the code treats alike)
Texts == UNION { [1..n -> RawTokens] : n \in 0..MaxTextLen }

\* ways the LLM round trip fails inside the analyzer's try block: client.post
\* raises, or the analyzer raises on a response without completion text
LLMFailures == {"timeout", "no_content"}

----------------------------------------------------------------------------
(* Sentiment extractor *)

PositiveMarkers == {"positive", "bullish", "optimistic", "favorable"}
NegativeMarkers == {"negative", "bearish", "pessimistic", "unfavorable"}
NeutralMarkers  == {"neutral", "mixed"}

PositiveActions == {"buy", "increase", "add"}
NegativeActions == {"sell", "reduce", "decrease", "exit"}
NeutralActions  == {"hold", "maintain", "keep"}

\* [:\s]* : the tokens the marker pattern skips after "sentiment"
MarkerSeparators == {":", " ", ": "}

\* a marker pattern without [:\s]* : the word must follow "sentiment" at once
HasMarkerAdjacent(text, ws) ==
    \E i \in 1..(Len(text) - 1) :
        /\ text[i] = "sentiment"
        /\ text[i+1] \in ws

\* re.search(r'sentiment[:\s]*(w1|w2|...)', text) for the words in ws
HasMarker(text, ws) ==
    \E i \in 1..Len(text) :
        /\ text[i] = "sentiment"
        /\ \E k \in (i+1)..Len(text) :
              /\ text[k] \in ws
              /\ \A m \in (i+1)..(k-1) : text[m] \in MarkerSeparators

\* re.search(r'(w1|w2|...)', text) for the words in ws
HasWord(text, ws) == \E i \in 1..Len(text) : text[i] \in ws

\* an extractor that looks for the action keywords before the markers
ExtractActionsFirst(text) ==
    LET text_lower == Lower(text) IN
    IF text = <<>> THEN None
    ELSE IF HasWord(text_lower, PositiveActions) THEN Some("positive")
    ELSE IF HasWord(text_lower, NegativeActions) THEN Some("negative")
    ELSE IF HasWord(text_lower, NeutralActions) THEN Some("neutral")
    ELSE IF HasMarker(text_lower, PositiveMarkers) THEN Some("positive")
    ELSE IF HasMarker(text_lower, NegativeMarkers) THEN Some("negative")
    ELSE IF HasMarker(text_lower, NeutralMarkers) THEN Some("neutral")
    ELSE Some("neutral")

\* an extractor that gives no label when nothing matches
ExtractDefaultNone(text) ==
    LET text_lower == Lower(text) IN
    IF text = <<>> THEN None
    ELSE IF HasMarker(text_lower, PositiveMarkers) THEN Some("positive")
    ELSE IF HasMarker(text_lower, NegativeMarkers) THEN Some("negative")
    ELSE IF HasMarker(text_lower, NeutralMarkers) THEN Some("neutral")
    ELSE IF HasWord(text_lower, PositiveActions) THEN Some("positive")
    ELSE IF HasWord(text_lower, NegativeActions) THEN Some("negative")
    ELSE IF HasWord(text_lower, NeutralActions) THEN Some("neutral")
    ELSE None

extract_sentiment_from_analysis(text) ==
    LET text_lower == Lower(text) IN
    IF text = <<>> THEN None
    ELSE IF HasMarker(text_lower, PositiveMarkers) THEN Some("positive")
    ELSE IF HasMarker(text_lower, NegativeMarkers) THEN Some("negative")
    ELSE IF HasMarker(text_lower, NeutralMarkers) THEN Some("neutral")
    ELSE IF HasWord(text_lower, PositiveActions) THEN Some("positive")
    ELSE IF HasWord(text_lower, NegativeActions) THEN Some("negative")
    ELSE IF HasWord(text_lower, NeutralActions) THEN Some("neutral")
    ELSE Some("neutral")

----------------------------------------------------------------------------
(* fetch_stock_news *)

\* titles of feed entries
Titles == {"t1", "t2"}

\* feed.entries of one source, as the titles of its entries; a feed that
\* cannot be read has no entry
Feeds == UNION { [1..n -> Titles] : n \in 0..MaxFeedLen }

\* entries[:n]
Take(entries, n) ==
    SubSeq(entries, 1, IF n < Len(entries) THEN n ELSE Len(entries))

\* the articles appended for the Yahoo entries
YahooArticles(entries) ==
    [i \in 1..Len(entries) |-> [title |-> entries[i], source |-> "Yahoo Finance"]]

\* the Google loop: an entry is appended unless an article with its title is
\* already in the list
RECURSIVE AppendGoogle(_, _)
AppendGoogle(articles, entries) ==
    IF entries = <<>> THEN articles
    ELSE AppendGoogle(
            IF \E i \in 1..Len(articles) : articles[i].title = Head(entries)
            THEN articles
            ELSE Append(articles, [title |-> Head(entries), source |-> "Google News"]),
            Tail(entries))

fetch_stock_news(yahoo, google, max_articles) ==
    LET first == YahooArticles(Take(yahoo, max_articles)) IN
    Take(IF Len(first) < max_articles
         THEN AppendGoogle(first, Take(google, max_articles - Len(first)))
         ELSE first,
         max_articles)

----------------------------------------------------------------------------
(* State *)

VARIABLES
    holdings,               \* the Holding table
    jobs,                   \* the BatchJob table; a job's id is its index
    analyses,               \* the NewsAnalysis table; a row's id is its index
    workers,                \* workers[j]: the thread running job j
    current_batch_job_id,   \* the module global of the same name
    response,               \* body of the last start-batch response
    status_response,        \* <<body>> of the last get-status response
    analysis_text,          \* an analysis text handed to the extractor
    extracted,              \* <<result>> of the extractor on analysis_text
    record,                 \* the NewsAnalysis row saved for analysis_text
    feeds,                  \* the two feeds and max_articles of a news fetch
    news_articles,          \* <<result>> of the news fetch on feeds
    batch_job_lock          \* who is inside "with batch_job_lock", None if nobody

\* what the calls studied on their own leave behind; the batch run does not
\* touch it
calls == <<status_response, analysis_text, extracted, record, feeds, news_articles>>

vars == <<holdings, jobs, analyses, workers, current_batch_job_id, response,
          status_response, analysis_text, extracted, record,
          feeds, news_articles, batch_job_lock>>

\* the Holding tables a sync may have left behind
HoldingTables ==
    UNION { [1..n -> [ticker : TickerInputs, qty : QtyInputs]] : n \in 0..MaxHoldings }

\* BatchJob(status="pending", total_holdings=0, ...) with the model's defaults
NewBatchJob(id) ==
    [ id |-> id, created_at |-> id, started_at |-> None, completed_at |-> None,
      status |-> "pending", total_holdings |-> 0, processed_holdings |-> 0,
      successful_holdings |-> 0, failed_holdings |-> 0, error_message |-> None ]

\* NewsAnalysis(ticker=..., holding_id=..., status="pending") with the
\* model's defaults
NewNewsAnalysis(ticker, holding_id) ==
    [ ticker |-> ticker, holding_id |-> holding_id, status |-> "pending",
      news_count |-> 0, analysis |-> None, sentiment |-> None,
      error_message |-> None ]

\* a thread that has been started and has not run yet
NewWorker ==
    [ pc |-> "spawned", holdings |-> <<>>, idx |-> 0, analysis |-> 0,
      returned_true |-> 0, returned_false |-> 0, raised |-> 0,
      llm_calls |-> 0, stopped_at |-> "" ]

\* no news fetch studied on its own has been made
NoFetch ==
    /\ feeds = [yahoo |-> <<>>, google |-> <<>>, max_articles |-> 1]
    /\ news_articles = <<>>

\* no call studied on its own has been made
NoCalls ==
    /\ status_response = <<>>
    /\ analysis_text = <<>>
    /\ extracted = <<>>
    /\ record = NewNewsAnalysis("AAPL", 1)
    /\ NoFetch
    /\ batch_job_lock = None

Init ==
    /\ holdings \in HoldingTables
    /\ jobs = <<>>
    /\ analyses = <<>>
    /\ workers = <<>>
    /\ current_batch_job_id = None
    /\ response = None
    /\ NoCalls

----------------------------------------------------------------------------
(* start_batch_analysis *)

\* .first() of a select without ORDER BY: SQLite returns rows in id order
First(S) == CHOOSE i \in S : \A k \in S : i <= k

\* the guard looking for the wrong status
RunningJobsPending(js) == { i \in DOMAIN js : js[i].status = "pending" }

\* select(BatchJob).where(BatchJob.status == "running")
RunningJobs(js) == { i \in DOMAIN js : js[i].status = "running" }

\* the block under "with batch_job_lock", up to the return
StartBatchBody ==
    IF RunningJobs(jobs) # {}
    THEN \* rejected with the id of the running job
         /\ response' = Some([status |-> "error", job_id |-> First(RunningJobs(jobs))])
         /\ UNCHANGED <<holdings, jobs, analyses, workers, current_batch_job_id>>
    ELSE /\ Len(jobs) < MaxJobs
         /\ jobs' = Append(jobs, NewBatchJob(Len(jobs) + 1))
         /\ current_batch_job_id' = Some(Len(jobs) + 1)
         /\ workers' = Append(workers, NewWorker)
         /\ response' = Some([status |-> "success", job_id |-> Len(jobs) + 1])
         /\ UNCHANGED <<holdings, analyses>>

\* a start request, as one step: the lock is taken, the block runs and the
\* lock is released by the return
StartBatch ==
    /\ batch_job_lock = None
    /\ StartBatchBody
    /\ UNCHANGED <<calls, batch_job_lock>>

\* a start request in two steps: it enters "with batch_job_lock" ...
StartEnter ==
    /\ batch_job_lock = None
    /\ Len(jobs) < MaxJobs
    /\ batch_job_lock' = Some("request")
    /\ UNCHANGED <<holdings, jobs, analyses, workers, current_batch_job_id, response>>
    /\ UNCHANGED calls

\* ... and runs the block; the return releases the lock
StartLocked ==
    /\ batch_job_lock = Some("request")
    /\ StartBatchBody
    /\ batch_job_lock' = None
    /\ UNCHANGED calls

----------------------------------------------------------------------------
(* run_batch_analysis *)

\* a worker that takes batch_job_lock for its run
MarkRunningLocked(j) ==
    /\ j \in DOMAIN workers
    /\ workers[j].pc = "spawned"
    /\ batch_job_lock = None
    /\ batch_job_lock' = Some("worker")
    /\ jobs' = [jobs EXCEPT ![j].status = "running", ![j].started_at = Some("now")]
    /\ workers' = [workers EXCEPT ![j].pc = "started"]
    /\ UNCHANGED <<holdings, analyses, current_batch_job_id, response>>
    /\ UNCHANGED calls

\* batch_job.status = "running"; batch_job.started_at = now; commit
MarkRunning(j) ==
    /\ j \in DOMAIN workers
    /\ workers[j].pc = "spawned"
    /\ jobs' = [jobs EXCEPT ![j].status = "running", ![j].started_at = Some("now")]
    /\ workers' = [workers EXCEPT ![j].pc = "started"]
    /\ UNCHANGED <<holdings, analyses, current_batch_job_id, response>>
    /\ UNCHANGED <<calls, batch_job_lock>>

\* select(Holding).where(Holding.qty > 0.0001), in table order, with ids
EligibleHoldings(hs) ==
    LET Pick(s, i) == IF hs[i].qty > QtyEpsilon
                      THEN Append(s, [id |-> i, ticker |-> hs[i].ticker])
                      ELSE s
        F[i \in 0..Len(hs)] == IF i = 0 THEN <<>> ELSE Pick(F[i-1], i)
    IN F[Len(hs)]

\* holdings = select(...).all(); batch_job.total_holdings = len(holdings); commit
SetTotal(j) ==
    /\ j \in DOMAIN workers
    /\ workers[j].pc = "started"
    /\ LET hs == EligibleHoldings(holdings) IN
          /\ jobs' = [jobs EXCEPT ![j].total_holdings = Len(hs)]
          /\ workers' = [workers EXCEPT ![j].pc = "loop", ![j].holdings = hs,
                                        ![j].idx = 1]
    /\ UNCHANGED <<holdings, analyses, current_batch_job_id, response>>
    /\ UNCHANGED <<calls, batch_job_lock>>

\* the holding the worker of job j is at
CurrentHolding(j) == workers[j].holdings[workers[j].idx]

\* rows of select(NewsAnalysis).where(NewsAnalysis.ticker == ticker)
AnalysisRows(ticker) == { i \in DOMAIN analyses : analyses[i].ticker = ticker }

\* a loop that passes over the holding after the one just handled
NextHoldingSkip(w) == [w EXCEPT !.pc = "loop", !.idx = @ + 2, !.analysis = 0]

\* the worker's record after an analyzer invocation has returned or raised
NextHolding(w) == [w EXCEPT !.pc = "loop", !.idx = @ + 1, !.analysis = 0]

----------------------------------------------------------------------------
(* analyze_holding_news, called by the worker of job j for CurrentHolding(j) *)

\* batch_job.processed_holdings += 1; batch_job.successful_holdings += 1
CountSuccess(job) ==
    [job EXCEPT !.processed_holdings = @ + 1, !.successful_holdings = @ + 1]

\* a failure path that forgets processed_holdings
CountFailureNotProcessed(job) == [job EXCEPT !.failed_holdings = @ + 1]

\* batch_job.processed_holdings += 1; batch_job.failed_holdings += 1
CountFailure(job) ==
    [job EXCEPT !.processed_holdings = @ + 1, !.failed_holdings = @ + 1]

\* the credential check, which raises to the caller when the key is missing
\* (the environment is read at every call), then the lookup of the ticker's
\* record
AnalyzeBegin(j) ==
    /\ j \in DOMAIN workers
    /\ workers[j].pc = "loop"
    /\ workers[j].idx <= Len(workers[j].holdings)
    /\ \E key \in BOOLEAN :
          IF ~key
          THEN workers' = [workers EXCEPT ![j].pc = "except", ![j].raised = @ + 1]
          ELSE LET rows == AnalysisRows(Upper(CurrentHolding(j).ticker)) IN
               LET row == IF rows = {} THEN 0 ELSE First(rows) IN
                  workers' = [workers EXCEPT ![j].pc = "upsert", ![j].analysis = row]
    /\ UNCHANGED <<holdings, jobs, analyses, current_batch_job_id, response>>
    /\ UNCHANGED <<calls, batch_job_lock>>

\* create the record as pending, or reset the one found to pending; commit
AnalyzeUpsert(j) ==
    /\ j \in DOMAIN workers
    /\ workers[j].pc = "upsert"
    /\ LET h == CurrentHolding(j)
           row == workers[j].analysis
       IN IF row = 0
          THEN /\ analyses' = Append(analyses, NewNewsAnalysis(Upper(h.ticker), h.id))
               /\ workers' = [workers EXCEPT ![j].pc = "fetch",
                                             ![j].analysis = Len(analyses) + 1]
          ELSE /\ analyses' = [analyses EXCEPT ![row].status = "pending",
                                               ![row].holding_id = h.id]
               /\ workers' = [workers EXCEPT ![j].pc = "fetch"]
    /\ UNCHANGED <<holdings, jobs, current_batch_job_id, response>>
    /\ UNCHANGED <<calls, batch_job_lock>>

\* a zero-articles path that saves the record as completed with no article
AnalyzeNoNewsCompleted(j) ==
    /\ j \in DOMAIN workers
    /\ workers[j].pc = "fetch"
    /\ analyses' = [analyses EXCEPT
          ![workers[j].analysis].status = "completed",
          ![workers[j].analysis].news_count = 0,
          ![workers[j].analysis].error_message = None]
    /\ workers' = [workers EXCEPT
          ![j] = [NextHolding(@) EXCEPT !.returned_false = @ + 1]]
    /\ UNCHANGED <<holdings, jobs, current_batch_job_id, response>>
    /\ UNCHANGED <<calls, batch_job_lock>>

\* fetch_stock_news returned no article: the record is failed, the analyzer
\* returns False
AnalyzeNoNews(j) ==
    /\ j \in DOMAIN workers
    /\ workers[j].pc = "fetch"
    /\ analyses' = [analyses EXCEPT
          ![workers[j].analysis].status = "failed",
          ![workers[j].analysis].error_message = Some("No recent news found")]
    /\ workers' = [workers EXCEPT
          ![j] = [NextHolding(@) EXCEPT !.returned_false = @ + 1]]
    /\ UNCHANGED <<holdings, jobs, current_batch_job_id, response>>
    /\ UNCHANGED <<calls, batch_job_lock>>

\* str(e) of what the try block raises after a non-empty fetch
ErrorMessage(failure) ==
    CASE failure = "timeout" -> "Request timed out"
      [] failure = "no_content" -> "No analysis received from AI"

\* an except clause that marks the record failed and drops the message
SaveFailureNoMessage(row, failure) == [row EXCEPT !.status = "failed"]

\* the except clause's update of the record
SaveFailure(row, failure) ==
    [row EXCEPT !.status = "failed",
                !.error_message = Some(ErrorMessage(failure))]

\* a success path that saves the text and not its sentiment
SaveResultNoSentiment(row, n, text) ==
    [row EXCEPT !.status = "completed",
                !.news_count = n,
                !.analysis = Some(text),
                !.error_message = None]

\* the success path's update of the record
SaveResult(row, n, text) ==
    [row EXCEPT !.status = "completed",
                !.news_count = n,
                !.analysis = Some(text),
                !.sentiment = extract_sentiment_from_analysis(text),
                !.error_message = None]

\* the except clause up to its first commit: the record is failed with the
\* error's message
AnalyzeLLMError(j) ==
    /\ j \in DOMAIN workers
    /\ workers[j].pc = "fetch"
    /\ \E n \in 1..MaxNews, failure \in LLMFailures :
          analyses' = [analyses EXCEPT
             ![workers[j].analysis] = SaveFailure(@, failure)]
    /\ workers' = [workers EXCEPT ![j].pc = "count_failure",
                                  ![j].llm_calls = @ + 1]
    /\ UNCHANGED <<holdings, jobs, current_batch_job_id, response>>
    /\ UNCHANGED <<calls, batch_job_lock>>

\* the LLM returned a text: the record is completed with the text and its
\* sentiment; commit
AnalyzeSave(j) ==
    /\ j \in DOMAIN workers
    /\ workers[j].pc = "fetch"
    /\ \E n \in 1..MaxNews, text \in LLMTexts :
          analyses' = [analyses EXCEPT
             ![workers[j].analysis] = SaveResult(@, n, text)]
    /\ workers' = [workers EXCEPT ![j].pc = "count_success",
                                  ![j].llm_calls = @ + 1]
    /\ UNCHANGED <<holdings, jobs, current_batch_job_id, response>>
    /\ UNCHANGED <<calls, batch_job_lock>>

\* the success path's counter update and commit; the analyzer returns True
AnalyzeCountSuccess(j) ==
    /\ j \in DOMAIN workers
    /\ workers[j].pc = "count_success"
    /\ jobs' = [jobs EXCEPT ![j] = CountSuccess(@)]
    /\ workers' = [workers EXCEPT
          ![j] = [NextHolding(@) EXCEPT !.returned_true = @ + 1]]
    /\ UNCHANGED <<holdings, analyses, current_batch_job_id, response>>
    /\ UNCHANGED <<calls, batch_job_lock>>

\* an except clause that counts the failure and raises again, so that the
\* loop's except clause counts it a second time
AnalyzeCountFailureReraise(j) ==
    /\ j \in DOMAIN workers
    /\ workers[j].pc = "count_failure"
    /\ jobs' = [jobs EXCEPT ![j] = CountFailure(@)]
    /\ workers' = [workers EXCEPT ![j].pc = "except", ![j].raised = @ + 1]
    /\ UNCHANGED <<holdings, analyses, current_batch_job_id, response>>
    /\ UNCHANGED <<calls, batch_job_lock>>

\* the except clause's counter update and commit; the analyzer returns False
AnalyzeCountFailure(j) ==
    /\ j \in DOMAIN workers
    /\ workers[j].pc = "count_failure"
    /\ jobs' = [jobs EXCEPT ![j] = CountFailure(@)]
    /\ workers' = [workers EXCEPT
          ![j] = [NextHolding(@) EXCEPT !.returned_false = @ + 1]]
    /\ UNCHANGED <<holdings, analyses, current_batch_job_id, response>>
    /\ UNCHANGED <<calls, batch_job_lock>>

\* a call of extract_sentiment_from_analysis on analysis_text
Extract ==
    /\ extracted' = <<extract_sentiment_from_analysis(analysis_text)>>
    /\ UNCHANGED <<holdings, jobs, analyses, workers, current_batch_job_id, response>>
    /\ UNCHANGED <<status_response, analysis_text, record, feeds, news_articles,
                   batch_job_lock>>

\* the analyzer's handling of a response whose completion text is
\* analysis_text: an empty text raises inside the try block, another one is
\* saved with its sentiment
AnalyzeResponse ==
    /\ record.status = "pending"
    /\ \E n \in 1..MaxNews :
          record' = IF analysis_text = <<>>
                    THEN SaveFailure(record, "no_content")
                    ELSE SaveResult(record, n, analysis_text)
    /\ UNCHANGED <<holdings, jobs, analyses, workers, current_batch_job_id, response>>
    /\ UNCHANGED <<status_response, analysis_text, extracted, feeds, news_articles,
                   batch_job_lock>>

\* a call of fetch_stock_news on the feeds
Fetch ==
    /\ news_articles' =
          <<fetch_stock_news(feeds.yahoo, feeds.google, feeds.max_articles)>>
    /\ UNCHANGED <<holdings, jobs, analyses, workers, current_batch_job_id, response>>
    /\ UNCHANGED <<status_response, analysis_text, extracted, record, feeds,
                   batch_job_lock>>

----------------------------------------------------------------------------
(* run_batch_analysis, continued *)

\* a loop without the except clause: the analyzer's exception ends the thread
BatchExceptAbort(j) ==
    /\ j \in DOMAIN workers
    /\ workers[j].pc = "except"
    /\ workers' = [workers EXCEPT ![j].pc = "crashed"]
    /\ UNCHANGED <<holdings, jobs, analyses, current_batch_job_id, response>>
    /\ UNCHANGED <<calls, batch_job_lock>>

\* an except clause that counts the failure and leaves the loop
BatchExceptBreak(j) ==
    /\ j \in DOMAIN workers
    /\ workers[j].pc = "except"
    /\ jobs' = [jobs EXCEPT ![j] = CountFailure(@)]
    /\ workers' = [workers EXCEPT
          ![j] = [NextHolding(@) EXCEPT !.idx = Len(workers[j].holdings) + 1]]
    /\ UNCHANGED <<holdings, analyses, current_batch_job_id, response>>
    /\ UNCHANGED <<calls, batch_job_lock>>

\* the loop's except clause: the analyzer raised, the job counts a failure
\* and the loop goes on
BatchExcept(j) ==
    /\ j \in DOMAIN workers
    /\ workers[j].pc = "except"
    /\ jobs' = [jobs EXCEPT ![j] = CountFailure(@)]
    /\ workers' = [workers EXCEPT ![j] = NextHolding(@)]
    /\ UNCHANGED <<holdings, analyses, current_batch_job_id, response>>
    /\ UNCHANGED <<calls, batch_job_lock>>

\* a final commit that also counts the holdings again
BatchCompleteRecount(j) ==
    /\ j \in DOMAIN workers
    /\ workers[j].pc = "loop"
    /\ workers[j].idx > Len(workers[j].holdings)
    /\ jobs' = [jobs EXCEPT ![j].status = "completed",
                            ![j].completed_at = Some("now"),
                            ![j].total_holdings = Len(EligibleHoldings(holdings))]
    /\ workers' = [workers EXCEPT ![j].pc = "done"]
    /\ UNCHANGED <<holdings, analyses, current_batch_job_id, response>>
    /\ UNCHANGED <<calls, batch_job_lock>>

\* the places of a run between the commit of status running and the final
\* commit
MidRunPcs ==
    {"started", "loop", "upsert", "fetch", "count_success", "count_failure", "except"}

\* the thread of job j stops mid-run: the process is terminated, or an error
\* is raised outside the try block of the loop; nothing is written
Crash(j) ==
    /\ j \in DOMAIN workers
    /\ workers[j].pc \in MidRunPcs
    /\ workers' = [workers EXCEPT ![j].pc = "crashed",
                                  ![j].stopped_at = workers[j].pc]
    /\ UNCHANGED <<holdings, jobs, analyses, current_batch_job_id, response>>
    /\ UNCHANGED <<calls, batch_job_lock>>

\* after the loop: status = "completed", completed_at = now; commit
BatchComplete(j) ==
    /\ j \in DOMAIN workers
    /\ workers[j].pc = "loop"
    /\ workers[j].idx > Len(workers[j].holdings)
    /\ jobs' = [jobs EXCEPT ![j].status = "completed",
                            ![j].completed_at = Some("now")]
    /\ workers' = [workers EXCEPT ![j].pc = "done"]
    /\ UNCHANGED <<holdings, analyses, current_batch_job_id, response>>
    /\ UNCHANGED <<calls, batch_job_lock>>

\* one step of the thread of job j
WorkerStep(j) ==
    \/ MarkRunning(j)
    \/ SetTotal(j)
    \/ AnalyzeBegin(j)
    \/ AnalyzeUpsert(j)
    \/ AnalyzeNoNews(j)
    \/ AnalyzeLLMError(j)
    \/ AnalyzeSave(j)
    \/ AnalyzeCountSuccess(j)
    \/ AnalyzeCountFailure(j)
    \/ BatchExcept(j)
    \/ BatchComplete(j)

----------------------------------------------------------------------------
(* get_batch_status *)

\* an order_by(BatchJob.created_at) without desc
LatestJobOldest(js) ==
    CHOOSE i \in DOMAIN js : \A k \in DOMAIN js : js[i].created_at <= js[k].created_at

\* select(BatchJob).order_by(BatchJob.created_at.desc()).first()
LatestJob(js) ==
    CHOOSE i \in DOMAIN js : \A k \in DOMAIN js : js[k].created_at <= js[i].created_at

\* round(x, 1) of Python for x = n / d, in tenths: the nearest tenth, a tie
\* going to the even one
RoundTenths(n, d) ==
    LET q == (10 * n) \div d
        r == (10 * n) % d
    IN IF 2 * r > d \/ (2 * r = d /\ q % 2 = 1) THEN q + 1 ELSE q

\* progress_pct in tenths of a percent: round(processed / total * 100, 1)
ProgressPct(job) ==
    IF job.total_holdings > 0
    THEN RoundTenths(job.processed_holdings * 100, job.total_holdings)
    ELSE 0

get_batch_status ==
    IF jobs = <<>>
    THEN [status |-> "no_job"]
    ELSE [status |-> "success", job |-> jobs[LatestJob(jobs)],
          progress_pct |-> ProgressPct(jobs[LatestJob(jobs)])]

\* a GET /batch-analyze-news/status request
GetStatus ==
    /\ status_response' = <<get_batch_status>>
    /\ UNCHANGED <<holdings, jobs, analyses, workers, current_batch_job_id, response>>
    /\ UNCHANGED <<analysis_text, extracted, record, feeds, news_articles,
                   batch_job_lock>>

----------------------------------------------------------------------------
(* Specifications *)

Next ==
    \/ StartBatch
    \/ \E j \in 1..MaxJobs : MarkRunning(j)
    \/ \E j \in 1..MaxJobs : SetTotal(j)
    \/ \E j \in 1..MaxJobs : AnalyzeBegin(j)
    \/ \E j \in 1..MaxJobs : AnalyzeUpsert(j)
    \/ \E j \in 1..MaxJobs : AnalyzeNoNews(j)
    \/ \E j \in 1..MaxJobs : AnalyzeLLMError(j)
    \/ \E j \in 1..MaxJobs : AnalyzeSave(j)
    \/ \E j \in 1..MaxJobs : AnalyzeCountSuccess(j)
    \/ \E j \in 1..MaxJobs : AnalyzeCountFailure(j)
    \/ \E j \in 1..MaxJobs : BatchExcept(j)
    \/ \E j \in 1..MaxJobs : BatchComplete(j)

Spec == Init /\ [][Next]_vars

\* a BatchJob row as an earlier process left it: pending, running with
\* some holdings counted, or completed
StoredJob(id, status, total, failed) ==
    [ NewBatchJob(id) EXCEPT
        !.status = status,
        !.started_at = IF status = "pending" THEN None ELSE Some("now"),
        !.completed_at = IF status = "completed" THEN Some("now") ELSE None,
        !.total_holdings = total,
        !.processed_holdings = failed,
        !.failed_holdings = failed ]

\* the rows with id id that runs which found no credential leave (such runs
\* write no NewsAnalysis row)
StoredJobs(id) ==
    {StoredJob(id, "pending", 0, 0)}
    \cup { StoredJob(id, "running", t, f) : t \in 0..MaxTotal, f \in 0..MaxTotal }
    \cup { StoredJob(id, "completed", t, t) : t \in 0..MaxTotal }

\* BatchJob tables of an earlier process: ids are in creation order
StoredJobTables ==
    { js \in UNION { [1..n -> UNION { StoredJobs(id) : id \in 1..MaxJobs }] : n \in 0..MaxJobs } :
        \A i \in DOMAIN js :
            /\ js[i].id = i
            /\ js[i].processed_holdings <= js[i].total_holdings }

\* the process starts over the database of an earlier one: the BatchJob rows
\* are there, their threads are not, the module global is None
StatusInit ==
    /\ holdings = <<>>
    /\ analyses = <<>>
    /\ jobs \in StoredJobTables
    /\ workers = [j \in DOMAIN jobs |-> [NewWorker EXCEPT !.pc = "gone"]]
    /\ current_batch_job_id = None
    /\ response = None
    /\ NoCalls

\* start and status requests, before any new thread has run
StatusNext ==
    \/ StartBatch
    \/ GetStatus

StatusSpec == StatusInit /\ [][StatusNext]_vars

\* the analyzer holds the pending record of a ticker and the LLM has
\* answered with some text
ExtractInit ==
    /\ holdings = <<>>
    /\ jobs = <<>>
    /\ analyses = <<>>
    /\ workers = <<>>
    /\ current_batch_job_id = None
    /\ response = None
    /\ status_response = <<>>
    /\ analysis_text \in Texts
    /\ extracted = <<>>
    /\ record = NewNewsAnalysis("AAPL", 1)
    /\ NoFetch
    /\ batch_job_lock = None

ExtractNext ==
    \/ Extract
    \/ AnalyzeResponse

ExtractSpec == ExtractInit /\ [][ExtractNext]_vars

\* a news fetch is about to be made: the two sources have some entries
FetchInit ==
    /\ holdings = <<>>
    /\ jobs = <<>>
    /\ analyses = <<>>
    /\ workers = <<>>
    /\ current_batch_job_id = None
    /\ response = None
    /\ status_response = <<>>
    /\ analysis_text = <<>>
    /\ extracted = <<>>
    /\ record = NewNewsAnalysis("AAPL", 1)
    /\ feeds \in [yahoo : Feeds, google : Feeds, max_articles : 1..MaxFeedLen]
    /\ news_articles = <<>>
    /\ batch_job_lock = None

FetchNext == Fetch

FetchSpec == FetchInit /\ [][FetchNext]_vars

\* a portfolio of n eligible holdings, n in 0..MaxHoldings
LiveTables ==
    { [i \in 1..n |-> [ticker |-> IF i % 2 = 1 THEN "aapl" ELSE "MSFT", qty |-> QtyEpsilon + 1]] :
        n \in 0..MaxHoldings }

LiveInit == Init /\ holdings \in LiveTables

\* a sync of the holdings from a source: the rows of the source are deleted
\* and committed, the rows just read are inserted and committed; each commit
\* leaves one of the tables of LiveTables
Sync ==
    /\ holdings' \in LiveTables \ {holdings}
    /\ UNCHANGED <<jobs, analyses, workers, current_batch_job_id, response>>
    /\ UNCHANGED <<calls, batch_job_lock>>

\* batch runs with syncs of the holdings at any moment
SyncNext ==
    \/ Next
    \/ Sync

SyncSpec == LiveInit /\ [][SyncNext]_vars

\* batch runs with the start request as two steps: the threads run while a
\* request is inside the lock
LockNext ==
    \/ StartEnter
    \/ StartLocked
    \/ \E j \in 1..MaxJobs : MarkRunning(j)
    \/ \E j \in 1..MaxJobs : SetTotal(j)
    \/ \E j \in 1..MaxJobs : AnalyzeBegin(j)
    \/ \E j \in 1..MaxJobs : AnalyzeUpsert(j)
    \/ \E j \in 1..MaxJobs : AnalyzeNoNews(j)
    \/ \E j \in 1..MaxJobs : AnalyzeLLMError(j)
    \/ \E j \in 1..MaxJobs : AnalyzeSave(j)
    \/ \E j \in 1..MaxJobs : AnalyzeCountSuccess(j)
    \/ \E j \in 1..MaxJobs : AnalyzeCountFailure(j)
    \/ \E j \in 1..MaxJobs : BatchExcept(j)
    \/ \E j \in 1..MaxJobs : BatchComplete(j)

LockSpec == LiveInit /\ [][LockNext]_vars

\* batch runs whose threads may stop at any moment
CrashNext ==
    \/ Next
    \/ \E j \in 1..MaxJobs : Crash(j)

CrashSpec == LiveInit /\ [][CrashNext]_vars

\* every started thread keeps being scheduled
FairSpec ==
    /\ LiveInit
    /\ [][Next]_vars
    /\ \A j \in 1..MaxJobs : WF_vars(WorkerStep(j))

----------------------------------------------------------------------------
(* Claims *)

\* the analyzer invocations the worker of job j has finished (returned or
\* raised and handled), read between two invocations
Handled(j) == workers[j].idx - 1

BetweenInvocations(j) == workers[j].pc \in {"loop", "done"}

\* C1: in every reachable state at most one BatchJob has status running.
\* Refuted: the guard looks for status running, a new job is created pending
\* and is marked running only by its worker, so a second start request that
\* comes before the first worker's first commit is accepted.
C1_AtMostOneRunning ==
    Cardinality({ i \in DOMAIN jobs : jobs[i].status = "running" }) <= 1

\* C2: while a run has not finished, no further BatchJob is created after
\* it, so get-status reports that run's job.
C2_OneJobPerRun ==
    \A i \in DOMAIN jobs :
        jobs[i].status \in {"pending", "running"} =>
            /\ i = Len(jobs)
            /\ get_batch_status.status = "success"
            /\ get_batch_status.job.id = i

\* C3: a start request that executes while some BatchJob is running returns
\* the id of a running job with status error, creates no BatchJob, spawns no
\* worker and changes no record.
C3_RejectedWhileRunning ==
    [][ (StartBatch /\ \E i \in DOMAIN jobs : jobs[i].status = "running") =>
          /\ jobs' = jobs
          /\ workers' = workers
          /\ analyses' = analyses
          /\ holdings' = holdings
          /\ current_batch_job_id' = current_batch_job_id
          /\ \E r \in response' :
                /\ r.status = "error"
                /\ r.job_id \in DOMAIN jobs
                /\ jobs[r.job_id].status = "running" ]_vars

\* C3 witness: a start request has just been rejected with the id of a job
\* that is running while its worker is in the middle of the run.
C3_Witness ==
    \E r \in response :
        /\ r.status = "error"
        /\ jobs[r.job_id].status = "running"
        /\ workers[r.job_id].pc = "fetch"
        /\ Len(jobs) = 1

\* C4: for every BatchJob, in every reachable state,
\* processed_holdings = successful_holdings + failed_holdings.
C4_ProcessedIsSum ==
    \A j \in DOMAIN jobs :
        jobs[j].processed_holdings =
            jobs[j].successful_holdings + jobs[j].failed_holdings

\* C4 witness: a job has counted one success and one failure, the failure
\* by the loop's except clause after the analyzer raised.
C4_Witness ==
    \E j \in DOMAIN jobs :
        /\ jobs[j].successful_holdings = 1
        /\ jobs[j].failed_holdings = 1
        /\ workers[j].raised = 1

\* C5: once the worker has set total_holdings,
\* processed_holdings <= total_holdings.
C5_ProcessedAtMostTotal ==
    \A j \in DOMAIN jobs :
        workers[j].pc \notin {"spawned", "started"} =>
            jobs[j].processed_holdings <= jobs[j].total_holdings

\* C5 witness: every holding of a run of two was counted, one by the
\* analyzer's except clause and one by the loop's.
C5_Witness ==
    \E j \in DOMAIN jobs :
        /\ jobs[j].total_holdings = 2
        /\ jobs[j].processed_holdings = 2
        /\ jobs[j].failed_holdings = 2
        /\ workers[j].raised = 1
        /\ workers[j].returned_false = 1

\* C6: whichever way the analyzer leaves a holding (no articles, LLM
\* failure, success), the job has counted that holding once: between two
\* invocations processed_holdings is the number of holdings handled,
\* successful_holdings the number of invocations that returned True and
\* failed_holdings the number of the others.
\* Refuted: the no-articles path returns False without touching the job.
C6_CountedOncePerHolding ==
    \A j \in DOMAIN jobs :
        BetweenInvocations(j) =>
            /\ jobs[j].processed_holdings = Handled(j)
            /\ jobs[j].successful_holdings = workers[j].returned_true
            /\ jobs[j].failed_holdings = workers[j].returned_false + workers[j].raised

\* C7: a completed BatchJob with total_holdings > 0 has
\* processed_holdings = total_holdings, and get-status reports 100 percent
\* for it.
C7_CompletedIsFull ==
    \A j \in DOMAIN jobs :
        (jobs[j].status = "completed" /\ jobs[j].total_holdings > 0) =>
            /\ jobs[j].processed_holdings = jobs[j].total_holdings
            /\ ProgressPct(jobs[j]) = 1000

\* C8: every accepted job eventually has status completed with completed_at
\* set, and no job ever has status failed.
C8_EventuallyCompleted ==
    /\ \A j \in 1..MaxJobs :
          (j \in DOMAIN jobs) ~>
             (j \in DOMAIN jobs /\ jobs[j].status = "completed"
                                /\ jobs[j].completed_at # None)
    /\ [](\A j \in DOMAIN jobs : jobs[j].status # "failed")

\* C8 witness: a job is completed after a run in which one invocation raised
\* and another returned False.
C8_Witness ==
    \E j \in DOMAIN jobs :
        /\ jobs[j].status = "completed"
        /\ jobs[j].completed_at # None
        /\ workers[j].raised = 1
        /\ workers[j].returned_false = 1

\* C9: when a run over n eligible holdings has completed, the job has
\* total_holdings = n, processed_holdings = n, successful_holdings = the
\* number of invocations that ended completed and failed_holdings = the
\* number that ended in failure.
C9_FinalCounters ==
    \A j \in DOMAIN jobs :
        jobs[j].status = "completed" =>
            /\ jobs[j].total_holdings = Len(workers[j].holdings)
            /\ jobs[j].processed_holdings = Len(workers[j].holdings)
            /\ jobs[j].successful_holdings = workers[j].returned_true
            /\ jobs[j].failed_holdings = workers[j].returned_false + workers[j].raised

\* C10: for every NewsAnalysis row, sentiment and analysis are both non-null
\* if and only if status is completed.
\* Refuted: resetting a completed row to pending keeps its analysis and
\* sentiment, and the failure paths do not clear them either.
C10_ResultIffCompleted ==
    \A i \in DOMAIN analyses :
        (analyses[i].sentiment # None /\ analyses[i].analysis # None)
            <=> analyses[i].status = "completed"

\* C11: for every NewsAnalysis row, in every reachable state, error_message
\* is non-null if and only if status is failed; this includes a row that
\* failed in an earlier run and is reset to pending by a later one.
\* Refuted: the reset to pending keeps the earlier error_message.
C11_ErrorIffFailed ==
    \A i \in DOMAIN analyses :
        analyses[i].error_message # None <=> analyses[i].status = "failed"

\* C12: whatever the runs and the interleaving of their workers, there is at
\* most one NewsAnalysis row for each upper-cased ticker.
\* Refuted: two workers that both select before either commits both insert.
C12_OneRowPerTicker ==
    \A i, k \in DOMAIN analyses :
        analyses[i].ticker = analyses[k].ticker => i = k

\* C13: an invocation whose news fetch returns no article leaves the
\* ticker's record failed with a non-null error_message and not completed,
\* calls no LLM, counts nothing on the job and returns False to the loop,
\* which goes on to the next holding.
C13_NoNewsFails ==
    [][ \A j \in DOMAIN workers :
          AnalyzeNoNews(j) =>
            LET row == workers[j].analysis IN
               /\ analyses'[row].status = "failed"
               /\ analyses'[row].error_message # None
               /\ analyses'[row].ticker = Upper(CurrentHolding(j).ticker)
               /\ workers'[j].llm_calls = workers[j].llm_calls
               /\ workers'[j].returned_false = workers[j].returned_false + 1
               /\ workers'[j].returned_true = workers[j].returned_true
               /\ workers'[j].raised = workers[j].raised
               /\ workers'[j].pc = "loop" ]_vars

\* C13 witness: the only invocation of a run found no article: its record is
\* failed with the message of that path, no LLM was called and the
\* invocation returned False.
C13_Witness ==
    \E j \in DOMAIN workers :
        /\ workers[j].idx = 2
        /\ workers[j].returned_false = 1
        /\ workers[j].llm_calls = 0
        /\ \E i \in DOMAIN analyses :
              /\ analyses[i].status = "failed"
              /\ analyses[i].error_message = Some("No recent news found")
              /\ analyses[i].sentiment = None

\* C14: the analyzer never raises to the loop of the batch worker: whatever
\* fails (missing credential, no article, timeout, empty completion), every
\* invocation returns.
\* Refuted: the credential check comes before the try block and raises.
C14_NeverRaises ==
    \A j \in DOMAIN workers :
        /\ workers[j].pc # "except"
        /\ workers[j].raised = 0

\* C15: when an invocation of the analyzer raises, the loop adds one to
\* processed_holdings and one to failed_holdings of its job and goes on to
\* the next holding; the holdings that remain are still gone through and
\* the job is completed.
C15_RaiseIsCountedAndPassed ==
    /\ [][ \A j \in DOMAIN workers :
             (workers[j].pc = "except" /\ workers'[j] # workers[j]) =>
                /\ jobs'[j].processed_holdings = jobs[j].processed_holdings + 1
                /\ jobs'[j].failed_holdings = jobs[j].failed_holdings + 1
                /\ jobs'[j].successful_holdings = jobs[j].successful_holdings
                /\ jobs'[j].status = "running"
                /\ workers'[j].pc = "loop"
                /\ workers'[j].idx = workers[j].idx + 1
                /\ workers'[j].holdings = workers[j].holdings ]_vars
    /\ \A j \in 1..MaxJobs :
          (j \in DOMAIN workers /\ workers[j].pc = "except") ~>
             (/\ j \in DOMAIN workers
              /\ workers[j].idx = Len(workers[j].holdings) + 1
              /\ jobs[j].status = "completed")

\* C15 witness: the first invocation of a run raised and was counted, and
\* the worker is analyzing the second holding.
C15_Witness ==
    \E j \in DOMAIN workers :
        /\ workers[j].raised = 1
        /\ jobs[j].processed_holdings = 1
        /\ jobs[j].failed_holdings = 1
        /\ workers[j].idx = 2
        /\ workers[j].pc = "fetch"

\* C16: every failure counted in failed_holdings is visible on the ticker:
\* whenever a job counts a holding as failed, the invocation has written that
\* holding's NewsAnalysis row, and the row is failed with a non-null
\* error_message.
\* Refuted: a missing credential is counted by the loop, and the analyzer
\* raised before it wrote any row.
C16_CountedFailureIsRecorded ==
    [][ \A j \in DOMAIN jobs :
          jobs'[j].failed_holdings > jobs[j].failed_holdings =>
             /\ workers[j].analysis \in DOMAIN analyses
             /\ analyses[workers[j].analysis].ticker = Upper(CurrentHolding(j).ticker)
             /\ analyses[workers[j].analysis].status = "failed"
             /\ analyses[workers[j].analysis].error_message # None ]_vars

\* C17: get-status returns the most recently created BatchJob (the one of
\* the latest accepted start request) with its current counters and
\* progress_pct = processed_holdings / total_holdings * 100 rounded to one
\* decimal place, 0 when total_holdings is 0; it returns no_job if and only
\* if the BatchJob table is empty.
C17_StatusOfLatestJob ==
    [][ GetStatus =>
          LET r == status_response'[1] IN
             /\ r.status = "no_job" <=> jobs = <<>>
             /\ jobs # <<>> =>
                   /\ r.status = "success"
                   /\ r.job = jobs[Len(jobs)]
                   /\ \A k \in DOMAIN jobs : jobs[k].created_at <= r.job.created_at
                   /\ current_batch_job_id # None => r.job.id \in current_batch_job_id
                   /\ r.job.total_holdings = 0 => r.progress_pct = 0
                   /\ r.job.total_holdings > 0 =>
                         /\ 2 * (r.progress_pct * r.job.total_holdings
                                   - 1000 * r.job.processed_holdings) <= r.job.total_holdings
                         /\ 2 * (1000 * r.job.processed_holdings
                                   - r.progress_pct * r.job.total_holdings) <= r.job.total_holdings
       ]_vars

\* C17 witness: get-status has reported the second of two jobs, running
\* with one holding of three processed, at 33.3 percent.
C17_Witness ==
    /\ Len(jobs) = 2
    /\ status_response # <<>>
    /\ status_response[1].status = "success"
    /\ status_response[1].job.id = 2
    /\ status_response[1].job.total_holdings = 3
    /\ status_response[1].job.processed_holdings = 1
    /\ status_response[1].progress_pct = 333

\* C17 as stated: the same, with progress_pct equal to
\* processed_holdings / total_holdings * 100.
\* Refuted: the response rounds to one decimal place (1 of 3 is 33.3).
C17_ExactProgress ==
    [][ GetStatus =>
          LET r == status_response'[1] IN
             /\ r.status = "no_job" <=> jobs = <<>>
             /\ jobs # <<>> =>
                   /\ r.status = "success"
                   /\ r.job = jobs[Len(jobs)]
                   /\ r.job.total_holdings = 0 => r.progress_pct = 0
                   /\ r.job.total_holdings > 0 =>
                         r.progress_pct * r.job.total_holdings
                            = 1000 * r.job.processed_holdings
       ]_vars

\* C18: for every analysis text that contains "sentiment: positive" in any
\* letter case, the extractor returns positive, whatever other markers or
\* action keywords the text holds and wherever they stand.
C18_PositiveMarkerWins ==
    (/\ extracted # <<>>
     /\ \E i \in 1..(Len(analysis_text) - 2) :
           /\ LowerToken(analysis_text[i]) = "sentiment"
           /\ LowerToken(analysis_text[i+1]) = ": "
           /\ LowerToken(analysis_text[i+2]) = "positive")
        => extracted[1] = Some("positive")

\* C18 witness: the extractor has answered positive on a text that has a
\* negative marker first and "Sentiment: POSITIVE" after it.
C18_Witness ==
    /\ analysis_text = <<"Sentiment", "negative", "Sentiment", ": ", "POSITIVE">>
    /\ extracted = <<Some("positive")>>

\* C19: for every non-empty text with no explicit sentiment marker and none
\* of the action keywords, the extractor returns neutral.
C19_DefaultNeutral ==
    (/\ extracted # <<>>
     /\ analysis_text # <<>>
     /\ ~HasMarker(Lower(analysis_text),
                   PositiveMarkers \cup NegativeMarkers \cup NeutralMarkers)
     /\ \A i \in 1..Len(analysis_text) :
           LowerToken(analysis_text[i]) \notin
              PositiveActions \cup NegativeActions \cup NeutralActions)
        => extracted[1] = Some("neutral")

\* C19 witness: the extractor has answered neutral on a text that names a
\* sentiment word with no "sentiment" before it and no action keyword.
C19_Witness ==
    /\ analysis_text = <<"negative", "outlook">>
    /\ extracted = <<Some("neutral")>>

\* C20: the extractor is total: it returns null for the empty text and one
\* of positive, negative, neutral for every other text; and a record saved
\* as completed has a non-null sentiment.
C20_ExtractorTotal ==
    /\ extracted # <<>> =>
          IF analysis_text = <<>>
          THEN extracted[1] = None
          ELSE extracted[1] \in {Some("positive"), Some("negative"), Some("neutral")}
    /\ record.status = "completed" =>
          /\ analysis_text # <<>>
          /\ record.sentiment \in {Some("positive"), Some("negative"), Some("neutral")}
          /\ record.sentiment = extract_sentiment_from_analysis(analysis_text)

\* C20 witness: the extractor has answered null on the empty text, and the
\* analyzer has saved the record of an empty completion as failed.
C20_Witness ==
    /\ analysis_text = <<>>
    /\ extracted = <<None>>
    /\ record.status = "failed"
    /\ record.sentiment = None

\* C21: the news fetch returns the Yahoo articles followed, when these are
\* fewer than max_articles, by the Google articles whose title is not
\* already present, cut to max_articles: the result is never longer than
\* max_articles, no Google article has the title of an earlier article, and
\* the result has max_articles entries whenever the Yahoo entries and the
\* Google titles not among them number at least max_articles.
\* Refuted: the Google entries are cut to the number still missing before
\* the duplicates among them are dropped.
C21_FetchFillsUp ==
    news_articles # <<>> =>
        LET r == news_articles[1]
            fresh == { feeds.google[i] : i \in 1..Len(feeds.google) }
                       \ { feeds.yahoo[i] : i \in 1..Len(feeds.yahoo) }
        IN /\ Len(r) <= feeds.max_articles
           /\ \A k \in 1..Len(r) :
                 /\ k <= Len(feeds.yahoo) =>
                       r[k] = [title |-> feeds.yahoo[k], source |-> "Yahoo Finance"]
                 /\ r[k].source = "Google News" =>
                       \A i \in 1..(k-1) : r[i].title # r[k].title
           /\ Len(feeds.yahoo) + Cardinality(fresh) >= feeds.max_articles =>
                 Len(r) = feeds.max_articles

\* the worker of job j is inside an invocation of the analyzer
InInvocation(j) ==
    workers[j].pc \in {"upsert", "fetch", "count_success", "count_failure"}

\* the worker of job j has begun its first item and not finished its last
MidRun(j) ==
    \/ InInvocation(j)
    \/ workers[j].pc = "except"
    \/ /\ workers[j].pc = "loop"
       /\ 1 < workers[j].idx
       /\ workers[j].idx <= Len(workers[j].holdings)

\* C22: across jobs no two invocations of the analyzer are in flight at the
\* same time: while the worker of one job is between its first and its last
\* item, no worker of another job is inside an invocation.
\* Refuted: the race of C1 starts two workers, which run side by side.
C22_NoCrossJobOverlap ==
    \A j, k \in DOMAIN workers :
        (j # k /\ MidRun(j)) => ~InInvocation(k)

\* the invocations of the analyzer the worker of job j has seen return or
\* raise
Finished(j) ==
    workers[j].returned_true + workers[j].returned_false + workers[j].raised

\* C23: within one run the eligible holdings are handed to the analyzer one
\* at a time and each once: the snapshot taken at the start of the run does
\* not change, an invocation begins only when all earlier ones have
\* returned or raised, it is given the next holding of the snapshot, and
\* when the loop ends there has been one invocation for each holding.
C23_OneAtATimeEachOnce ==
    /\ [][ \A j \in DOMAIN workers :
             /\ workers[j].pc \notin {"spawned", "started"} =>
                   workers'[j].holdings = workers[j].holdings
             /\ (workers[j].pc = "loop" /\ workers'[j].pc \in {"upsert", "except"}) =>
                   /\ workers[j].idx \in 1..Len(workers[j].holdings)
                   /\ workers'[j].idx = workers[j].idx
                   /\ Finished(j) = workers[j].idx - 1
             /\ (workers[j].pc # "started" /\ workers'[j].idx # workers[j].idx) =>
                   /\ workers'[j].idx = workers[j].idx + 1
                   /\ workers'[j].pc = "loop" ]_vars
    /\ [](\A j \in DOMAIN workers :
             workers[j].pc = "done" =>
                /\ workers[j].idx = Len(workers[j].holdings) + 1
                /\ Finished(j) = Len(workers[j].holdings))

\* C23 witness: a run over two holdings has ended after two invocations,
\* one that returned True and one that returned False.
C23_Witness ==
    \E j \in DOMAIN workers :
        /\ workers[j].pc = "done"
        /\ Len(workers[j].holdings) = 2
        /\ workers[j].returned_true = 1
        /\ workers[j].returned_false = 1
        /\ workers[j].raised = 0

\* C24: for every job, total_holdings is written by the worker once, after
\* the job has been marked running with started_at set and before the first
\* invocation of the analyzer; no later step of the run and no sync of the
\* holdings changes it.
C24_TotalSetOnce ==
    /\ [][ \A j \in DOMAIN jobs :
             /\ jobs'[j].total_holdings # jobs[j].total_holdings =>
                   /\ workers[j].pc = "started"
                   /\ workers'[j].pc = "loop"
                   /\ jobs[j].status = "running"
                   /\ jobs[j].started_at # None
                   /\ Finished(j) = 0
                   /\ workers[j].analysis = 0
             /\ workers'[j].pc = "started" => workers[j].pc \in {"spawned", "started"}
             /\ workers[j].pc \in {"spawned", "started"} => jobs[j].total_holdings = 0
           ]_vars
    /\ [](\A j \in DOMAIN jobs :
             workers[j].pc \notin {"spawned", "started"} =>
                jobs[j].total_holdings = Len(workers[j].holdings))

\* C24 witness: a job that found two eligible holdings has completed with
\* total_holdings = 2 after a sync has emptied the Holding table.
C24_Witness ==
    \E j \in DOMAIN jobs :
        /\ jobs[j].status = "completed"
        /\ jobs[j].total_holdings = 2
        /\ holdings = <<>>

\* C25: an explicit sentiment marker wins over the action keywords: when the
\* text has "sentiment" followed by a word of one class, with only colons
\* and white space between, and no such marker of another class, the result
\* is that class whatever action keywords the text holds; a text with
\* markers gets the class of one of them; the action keywords decide only
\* when the text has no marker.
C25_MarkerBeatsAction ==
    (extracted # <<>> /\ analysis_text # <<>>) =>
        LET t == Lower(analysis_text)
            pos == HasMarker(t, PositiveMarkers)
            neg == HasMarker(t, NegativeMarkers)
            neu == HasMarker(t, NeutralMarkers)
            r == extracted[1]
        IN /\ (pos /\ ~neg /\ ~neu) => r = Some("positive")
           /\ (neg /\ ~pos /\ ~neu) => r = Some("negative")
           /\ (neu /\ ~pos /\ ~neg) => r = Some("neutral")
           /\ (pos \/ neg \/ neu) =>
                 \/ pos /\ r = Some("positive")
                 \/ neg /\ r = Some("negative")
                 \/ neu /\ r = Some("neutral")
           /\ ~(pos \/ neg \/ neu) =>
                 r = IF \E i \in 1..Len(t) : t[i] \in PositiveActions
                     THEN Some("positive")
                     ELSE IF \E i \in 1..Len(t) : t[i] \in NegativeActions
                     THEN Some("negative")
                     ELSE Some("neutral")

\* C25 witness: the extractor has answered negative on "Sentiment: negative
\* buy", a negative marker with a positive action keyword after it.
C25_Witness ==
    /\ analysis_text = <<"Sentiment", ": ", "negative", "buy">>
    /\ extracted = <<Some("negative")>>

\* C26: batch_job_lock is held only by a start request, for the check and
\* the creation of the job, never by a worker: whoever holds it can finish
\* without any step of a worker, no step of a worker takes or releases it,
\* and an accepted request returns the id of the new job while the job is
\* still pending and its thread has not run.
C26_LockOnlyAroundStart ==
    /\ [](batch_job_lock # None =>
             /\ batch_job_lock = Some("request")
             /\ ENABLED StartLocked)
    /\ [][ /\ \A j \in DOMAIN workers :
               workers'[j] # workers[j] => batch_job_lock' = batch_job_lock
           /\ Len(jobs') > Len(jobs) =>
               /\ batch_job_lock = Some("request")
               /\ batch_job_lock' = None
               /\ response' = Some([status |-> "success", job_id |-> Len(jobs')])
               /\ jobs'[Len(jobs')].status = "pending"
               /\ workers'[Len(jobs')].pc = "spawned"
               /\ \A j \in DOMAIN workers : workers'[j] = workers[j] ]_vars

\* C26 witness: a start request has been rejected and has released the lock
\* while the worker of the running job is in the middle of an invocation.
C26_Witness ==
    /\ batch_job_lock = None
    /\ \E r \in response : r.status = "error" /\ workers[r.job_id].pc = "fetch"

\* C27: when the worker of a job stops mid-run, the job keeps status running
\* with completed_at null and its counters for ever, and the record of the
\* ticker that was in flight (fetch and LLM round trip) stays pending.
\* Refuted: a worker of another job, started by the race of C1, writes the
\* record of the same ticker.
C27_StoppedRunStaysAsLeft ==
    /\ [](\A j \in DOMAIN workers :
             workers[j].pc = "crashed" =>
                /\ jobs[j].status = "running"
                /\ jobs[j].completed_at = None
                /\ workers[j].stopped_at = "fetch" =>
                      analyses[workers[j].analysis].status = "pending")
    /\ [][ \A j \in DOMAIN workers :
             workers[j].pc = "crashed" => jobs'[j] = jobs[j] ]_vars

\* C28: when the LLM call for a ticker fails, the analyzer sets the ticker's
\* record to failed with the error's message, then adds one to the job's
\* failed_holdings and processed_holdings, leaves successful_holdings as it
\* is, and returns False to the loop.
C28_LLMFailureIsRecordedAndCounted ==
    [][ \A j \in DOMAIN workers :
          /\ (workers[j].pc = "fetch" /\ workers'[j].pc = "count_failure") =>
                /\ analyses'[workers[j].analysis].status = "failed"
                /\ \E failure \in LLMFailures :
                      analyses'[workers[j].analysis].error_message
                         = Some(ErrorMessage(failure))
                /\ workers'[j].llm_calls = workers[j].llm_calls + 1
                /\ jobs' = jobs
          /\ (workers[j].pc = "count_failure" /\ workers'[j] # workers[j]) =>
                /\ jobs'[j].failed_holdings = jobs[j].failed_holdings + 1
                /\ jobs'[j].processed_holdings = jobs[j].processed_holdings + 1
                /\ jobs'[j].successful_holdings = jobs[j].successful_holdings
                /\ workers'[j].returned_false = workers[j].returned_false + 1
                /\ workers'[j].returned_true = workers[j].returned_true
                /\ workers'[j].raised = workers[j].raised
                /\ workers'[j].pc = "loop" ]_vars

\* a job has counted an invocation that returned False after a failed LLM
\* call, and the record carries that error's message
C28_Witness ==
    \E j \in DOMAIN workers :
       /\ workers[j].returned_false > 0
       /\ workers[j].llm_calls > 0
       /\ jobs[j].failed_holdings > 0
       /\ jobs[j].successful_holdings = 0
       /\ \E i \in DOMAIN analyses :
             /\ analyses[i].status = "failed"
             /\ analyses[i].error_message = Some("No analysis received from AI")

\* C29: once a job is left in status running by a worker that is gone, every
\* later start request is rejected with that job's id, and no job is ever
\* created or run again.
\* Refuted: two jobs started by the race of C1 can both be left running, and
\* the rejection then carries the id of the older one only.
C29_StaleRunningBlocksForEver ==
    [][ \A j \in DOMAIN jobs :
          (jobs[j].status = "running" /\ workers[j].pc = "gone") =>
             /\ jobs' = jobs
             /\ workers' = workers
             /\ response' # response =>
                   response' = Some([status |-> "error", job_id |-> j]) ]_vars

\* the eligible holdings of job j are two holdings of one upper-cased ticker
DuplicateTicker(j) ==
    /\ Len(workers[j].holdings) = 2
    /\ Upper(workers[j].holdings[1].ticker) = Upper(workers[j].holdings[2].ticker)

\* C30: when the eligible set holds two holdings with the same upper-cased
\* ticker, both are counted in total_holdings and processed separately, both
\* write the single record of the ticker, and after the run the record holds
\* the outcome and the holding_id of the holding processed last.
\* Refuted: an invocation that raises on the missing credential (C14) writes
\* no record at all.
C30_DuplicateTickerLastWins ==
    \A j \in DOMAIN workers :
       (workers[j].pc = "done" /\ DuplicateTicker(j)) =>
          LET rows == AnalysisRows(Upper(workers[j].holdings[2].ticker)) IN
             /\ jobs[j].total_holdings = 2
             /\ Handled(j) = 2
             /\ Cardinality(rows) = 1
             /\ \A i \in rows :
                   /\ analyses[i].holding_id = workers[j].holdings[2].id
                   /\ analyses[i].status \in {"completed", "failed"}

====
